---- MODULE Spec2Model ----
(***************************************************************************)
(* Quotation pricing and serial numbering of the curtain quotation system. *)
(*                                                                         *)
(* Strings are sequences of one-character strings, so that formatting,     *)
(* splitting, parsing and the database's string ordering are computed as   *)
(* the code computes them.                                                 *)
(***************************************************************************)
EXTENDS Integers, Sequences, FiniteSets, TLC

(***************************************************************************)
(* Bounds of the model.                                                    *)
(***************************************************************************)
NumCallers == 2       \* concurrent callers of create_quotation
MaxCalls == 3         \* create_quotation calls in one behaviour
MaxLegacy == 3        \* legacy quotations in one migration run
MaxDeletes == 1       \* quotations deleted in one behaviour
MaxStored == 3        \* stored quotations a serial is generated against
MaxLines == 2         \* lines handed to calc_quotation_totals
NumWorkers == 2       \* concurrent callers of the item and status services
MaxOps == 2           \* item, totals and status operations in one behaviour
MaxQuotes == 1        \* quotations created in one behaviour of the life cycle
MaxCustomers == 2     \* customers stored at one time
MaxRepeats == 2       \* calls of a calculation made again with the same arguments
FirstYear == 2025     \* the clock's year in the initial state
YearSpan == 1         \* how many times the year may roll over

(***************************************************************************)
(* Characters and strings.                                                 *)
(***************************************************************************)
\* The characters the model uses, in ASCII order.
Alphabet == << "+", "-", "0", "1", "2", "3", "4", "5", "6", "7", "8", "9",
               "Q", "a", "q" >>

Digits == << "0", "1", "2", "3", "4", "5", "6", "7", "8", "9" >>

\* Position of a character in the binary collation (ASCII order).
Ord(c) == CHOOSE i \in 1..Len(Alphabet) : Alphabet[i] = c

IsDigit(c) == \E i \in 1..10 : Digits[i] = c

DigitVal(c) == (CHOOSE i \in 1..10 : Digits[i] = c) - 1

\* ASCII upper-casing, as SQLite's LIKE folds case.
Upper(c) == IF c = "q" THEN "Q" ELSE IF c = "a" THEN "A" ELSE c

\* s < t in the database's BINARY collation (bytewise lexicographic).
StrLess(s, t) ==
    \/ /\ Len(s) < Len(t)
       /\ \A i \in 1..Len(s) : s[i] = t[i]
    \/ \E k \in 1..Len(s) :
          /\ k <= Len(t)
          /\ \A i \in 1..(k - 1) : s[i] = t[i]
          /\ Ord(s[k]) < Ord(t[k])

\* str(n) for n >= 0.
RECURSIVE IntToStr(_)
IntToStr(n) ==
    IF n < 10 THEN << Digits[n + 1] >>
    ELSE IntToStr(n \div 10) \o << Digits[(n % 10) + 1] >>

RECURSIVE ZeroFill(_, _)
ZeroFill(s, width) == IF Len(s) >= width THEN s ELSE ZeroFill(<< "0" >> \o s, width)

\* f"{n:06d}" for n >= 0: at least six digits, more when n needs them.
Format06d(n) == ZeroFill(IntToStr(n), 6)

\* s.split('-'): the parts between hyphens (always at least one part).
RECURSIVE SplitFrom(_, _, _)
SplitFrom(s, i, cur) ==
    IF i > Len(s) THEN << cur >>
    ELSE IF s[i] = "-" THEN << cur >> \o SplitFrom(s, i + 1, << >>)
    ELSE SplitFrom(s, i + 1, Append(cur, s[i]))

Split(s) == SplitFrom(s, 1, << >>)

RECURSIVE DigitsValue(_)
DigitsValue(s) ==
    IF s = << >> THEN 0
    ELSE 10 * DigitsValue(SubSeq(s, 1, Len(s) - 1)) + DigitVal(s[Len(s)])

\* int(s): an optional sign, then one or more decimal digits (leading zeros
\* allowed); anything else is a ValueError.
PyInt(s) ==
    LET signed == Len(s) >= 1 /\ s[1] \in { "+", "-" }
        body == IF signed THEN SubSeq(s, 2, Len(s)) ELSE s
    IN  IF body # << >> /\ \A i \in 1..Len(body) : IsDigit(body[i])
        THEN [ok |-> TRUE,
              val |-> IF signed /\ s[1] = "-" THEN 0 - DigitsValue(body)
                      ELSE DigitsValue(body)]
        ELSE [ok |-> FALSE, val |-> 0]

(***************************************************************************)
(* Python numbers.  A Decimal is the exact value n * 10^-e, kept in lowest *)
(* terms (no trailing zero in n), so that equal values are equal records;  *)
(* Decimal compares by value.  An int carries its own tag: it has no       *)
(* quantize method.                                                        *)
(***************************************************************************)
RECURSIVE Pow10(_)
Pow10(k) == IF k = 0 THEN 1 ELSE 10 * Pow10(k - 1)

RECURSIVE Lowest(_, _)
Lowest(n, e) ==
    IF n = 0 THEN [n |-> 0, e |-> 0]
    ELSE IF e > 0 /\ n % 10 = 0 THEN Lowest(n \div 10, e - 1)
    ELSE [n |-> n, e |-> e]

\* Decimal('n * 10^-e')
Dec(n, e) == [t |-> "Decimal", n |-> Lowest(n, e).n, e |-> Lowest(n, e).e]

\* A Python int.
IntObj(n) == [t |-> "int", n |-> n, e |-> 0]

NoneValue == [t |-> "None", n |-> 0, e |-> 0]

\* The result of an operation that raised.
Raised(name) == [t |-> name, n |-> 0, e |-> 0]

IsNumber(x) == x.t \in { "Decimal", "int" }

\* bool(x): None and zero are falsy.
Truthy(x) == IsNumber(x) /\ x.n # 0

\* x or y
Or(x, y) == IF Truthy(x) THEN x ELSE y

\* The type of the result of arithmetic on two numbers.
Wider(x, y) == IF x.t = "int" /\ y.t = "int" THEN "int" ELSE "Decimal"

MaxOf(a, b) == IF a >= b THEN a ELSE b

\* x's numerator at scale e (e >= x.e).
AtScale(x, e) == x.n * Pow10(e - x.e)

Make(type, n, e) == IF type = "int" THEN IntObj(n) ELSE Dec(n, e)

Add(x, y) ==
    Make(Wider(x, y), AtScale(x, MaxOf(x.e, y.e)) + AtScale(y, MaxOf(x.e, y.e)),
         MaxOf(x.e, y.e))

Sub(x, y) ==
    Make(Wider(x, y), AtScale(x, MaxOf(x.e, y.e)) - AtScale(y, MaxOf(x.e, y.e)),
         MaxOf(x.e, y.e))

Mul(x, y) == Make(Wider(x, y), x.n * y.n, x.e + y.e)

\* x / Decimal('100')
DivHundred(x) == Dec(x.n, x.e + 2)

Less(x, y) == AtScale(x, MaxOf(x.e, y.e)) < AtScale(y, MaxOf(x.e, y.e))

\* Mutant: no clamp, the first operand is returned as it is.
Max_NoClamp(x, y) == x

\* Mutant: the smaller operand is returned.
Max_Smaller(x, y) == IF Less(x, y) THEN x ELSE y

\* max(x, y): the first of the largest.
Max(x, y) == IF Less(x, y) THEN y ELSE x

\* Decimal(str(x))
DecimalOfStr(x) == Dec(x.n, x.e)

Abs(n) == IF n < 0 THEN 0 - n ELSE n

\* The numerator of x at `places` decimals, rounded half up (ties away from zero).
HalfUp(x, places) ==
    IF x.e <= places THEN x.n * Pow10(places - x.e)
    ELSE LET unit == Pow10(x.e - places)
             q == Abs(x.n) \div unit
             r == Abs(x.n) % unit
             m == IF 2 * r >= unit THEN q + 1 ELSE q
         IN  IF x.n < 0 THEN 0 - m ELSE m

\* Mutant: quantize truncates instead of rounding half up.
Quantize_Truncating(x, places) ==
    IF x.t # "Decimal" THEN Raised("AttributeError")
    ELSE IF x.e <= places THEN x
    ELSE Dec((Abs(x.n) \div Pow10(x.e - places)) * (IF x.n < 0 THEN 0 - 1 ELSE 1), places)

\* x.quantize(Decimal('0.01'), rounding=ROUND_HALF_UP) for places = 2, and
\* with Decimal('0.001') for places = 3; an int has no such method.
Quantize(x, places) ==
    IF x.t # "Decimal" THEN Raised("AttributeError")
    ELSE Dec(HalfUp(x, places), places)

\* Mutant: the sum rounds to whole units once the second term is added.
RECURSIVE Sum_RoundingAfterFirst(_)
Sum_RoundingAfterFirst(xs) ==
    IF xs = << >> THEN IntObj(0)
    ELSE IF Len(xs) = 1 THEN Add(IntObj(0), xs[1])
    ELSE Add(Dec(HalfUp(Sum_RoundingAfterFirst(SubSeq(xs, 1, Len(xs) - 1)), 0), 0),
             xs[Len(xs)])

\* sum(...) of a sequence of numbers: starts from the int 0.
RECURSIVE Sum(_)
Sum(xs) == IF xs = << >> THEN IntObj(0) ELSE Add(Sum(SubSeq(xs, 1, Len(xs) - 1)), xs[Len(xs)])

(***************************************************************************)
(* core/calculations.py                                                    *)
(***************************************************************************)
calc_area(width, height) ==
    IF ~Truthy(width) \/ ~Truthy(height) THEN Dec(0, 0)
    ELSE Quantize(Mul(width, height), 3)

calc_total_area(area, quantity) ==
    IF ~Truthy(area) \/ ~Truthy(quantity) THEN Dec(0, 0)
    ELSE Quantize(Mul(area, DecimalOfStr(quantity)), 3)

get_base_qty(unit_type, width, height, area, total_area, quantity) ==
    IF unit_type = "area" THEN total_area
    ELSE IF unit_type = "width" THEN Mul(Or(width, Dec(0, 0)), DecimalOfStr(quantity))
    ELSE IF unit_type = "length" THEN Mul(Or(height, Dec(0, 0)), DecimalOfStr(quantity))
    ELSE IF unit_type = "pcs" THEN DecimalOfStr(quantity)
    ELSE Dec(0, 0)

\* Mutant: the override is taken only when it is truthy.
get_effective_unit_price_Truthy(base_price, variation_price) ==
    Or(Or(variation_price, base_price), Dec(0, 0))

get_effective_unit_price(base_price, variation_price) ==
    IF variation_price # NoneValue THEN variation_price
    ELSE Or(base_price, Dec(0, 0))

apply_discount(base_amount, discount_type, discount_value) ==
    IF ~Truthy(discount_value) THEN base_amount
    ELSE LET result ==
                 IF discount_type = "percent"
                 THEN Sub(base_amount, Mul(base_amount, DivHundred(discount_value)))
                 ELSE Sub(base_amount, discount_value)
         IN  Max(result, Dec(0, 0))

calc_line_totals(width, height, quantity, unit_type, base_unit_price, variation_price, discount_type, discount_value, tax_rate) ==
    LET area == calc_area(Or(width, Dec(0, 0)), Or(height, Dec(0, 0)))
        total_area == calc_total_area(area, Or(quantity, IntObj(1)))
        base_qty == get_base_qty(unit_type, width, height, area, total_area,
                                 Or(quantity, IntObj(1)))
        unit_price == get_effective_unit_price(base_unit_price, variation_price)
        line_base == Mul(base_qty, unit_price)
        line_total_ex_vat == apply_discount(line_base, discount_type, discount_value)
        vat_amount == Quantize(Mul(line_total_ex_vat, tax_rate), 2)
        line_total_inc_vat == Add(line_total_ex_vat, vat_amount)
    IN  [area |-> area,
         total_area |-> total_area,
         base_qty |-> base_qty,
         unit_price |-> unit_price,
         line_base |-> line_base,
         line_total_ex_vat |-> Quantize(line_total_ex_vat, 2),
         vat_amount |-> vat_amount,
         line_total_inc_vat |-> Quantize(line_total_inc_vat, 2)]

\* Mutant: the grand total is taken on the subtotal before the header discount.
TotalsDict_GrandBeforeDiscount(items_subtotal_ex_vat, total_item_discounts, discount_header, discounted_ex_vat, vat_amount, grand_total) ==
    IF items_subtotal_ex_vat.t # "Decimal"
    THEN [error |-> "AttributeError"]
    ELSE [error |-> "none",
          items_subtotal_ex_vat |-> Quantize(items_subtotal_ex_vat, 2),
          total_item_discounts |-> Quantize(total_item_discounts, 2),
          discount_header |-> Quantize(discount_header, 2),
          discounted_ex_vat |-> Quantize(discounted_ex_vat, 2),
          vat_amount |-> vat_amount,
          grand_total |-> Quantize(Add(items_subtotal_ex_vat, vat_amount), 2)]

\* Mutant: the item discounts are taken off the grand total.
TotalsDict_DiscountsFeedBack(items_subtotal_ex_vat, total_item_discounts, discount_header, discounted_ex_vat, vat_amount, grand_total) ==
    IF items_subtotal_ex_vat.t # "Decimal"
    THEN [error |-> "AttributeError"]
    ELSE [error |-> "none",
          items_subtotal_ex_vat |-> Quantize(items_subtotal_ex_vat, 2),
          total_item_discounts |-> Quantize(total_item_discounts, 2),
          discount_header |-> Quantize(discount_header, 2),
          discounted_ex_vat |-> Quantize(discounted_ex_vat, 2),
          vat_amount |-> vat_amount,
          grand_total |-> Quantize(Sub(grand_total, total_item_discounts), 2)]

\* The dictionary calc_quotation_totals returns; building it raises when a
\* value it quantizes has no quantize method.
TotalsDict(items_subtotal_ex_vat, total_item_discounts, discount_header, discounted_ex_vat, vat_amount, grand_total) ==
    LET sums == << items_subtotal_ex_vat, total_item_discounts, discount_header,
                   discounted_ex_vat, grand_total >>
    IN  IF \E i \in 1..Len(sums) : sums[i].t # "Decimal"
        THEN [error |-> "AttributeError"]
        ELSE [error |-> "none",
              items_subtotal_ex_vat |-> Quantize(items_subtotal_ex_vat, 2),
              total_item_discounts |-> Quantize(total_item_discounts, 2),
              discount_header |-> Quantize(discount_header, 2),
              discounted_ex_vat |-> Quantize(discounted_ex_vat, 2),
              vat_amount |-> vat_amount,
              grand_total |-> Quantize(grand_total, 2)]

calc_quotation_totals(items_data, header_discount_type, header_discount_value, tax_rate) ==
    LET items_subtotal_ex_vat ==
            Sum([i \in DOMAIN items_data |-> DecimalOfStr(items_data[i].line_total_ex_vat)])
        total_item_discounts ==
            Sum([i \in DOMAIN items_data |-> DecimalOfStr(items_data[i].discount_amount)])
        discount_header ==
            IF header_discount_type = "percent"
            THEN Mul(items_subtotal_ex_vat, DivHundred(header_discount_value))
            ELSE header_discount_value
        discounted_ex_vat == Max(Sub(items_subtotal_ex_vat, discount_header), Dec(0, 0))
        vat_amount == Quantize(Mul(discounted_ex_vat, tax_rate), 2)
        grand_total == Add(discounted_ex_vat, vat_amount)
    IN  TotalsDict(items_subtotal_ex_vat, total_item_discounts, discount_header,
                   discounted_ex_vat, vat_amount, grand_total)

(***************************************************************************)
(* State.                                                                  *)
(***************************************************************************)
VARIABLES
    quotations,   \* the quotations table: id -> row
    now_year,     \* datetime.now().year
    pc,           \* each create_quotation caller's position
    serial,       \* each caller's local variable `serial`
    calls,        \* create_quotation calls started so far
    migrated,     \* whether run_migration has run
    issued,       \* history: every serial ever committed to the table
    deletes,      \* quotations deleted so far
    warnings,     \* anomalies reported by the serial module so far
    candidate,    \* the string handed to validate_serial_format
    verdict,      \* what validate_serial_format returned for it
    items_data,   \* calc_quotation_totals: its arguments ...
    header_discount,
    tax_rate,
    totals,       \* ... and what it returned
    line_args,    \* calc_line_totals: its arguments ...
    line_result,  \* ... and what it returned
    repeats,      \* calls of a calculation made after its first call
    quote_items,  \* the quote_items table: id -> row
    wpc,          \* each service caller's position in its operation
    wloc,         \* each service caller's session: what it has loaded
    ops,          \* service operations started so far
    added,        \* migrate_quotations: each legacy row and the serial it was added with
    customers,    \* the customers table: the ids of its rows
    cpc,          \* each delete_customer caller's position
    cid,          \* each delete_customer caller's argument customer_id
    cresult       \* what each caller's delete_customer call came to

serialVars == << quotations, now_year, pc, serial, calls, migrated, issued, deletes,
                warnings >>

validateVars == << candidate, verdict >>

totalsVars ==
    << items_data, header_discount, tax_rate, totals, line_args, line_result, repeats >>

lifeVars == << quote_items, wpc, wloc, ops >>

migrateVars == << added >>

customerVars == << customers, cpc, cid, cresult >>

vars == << serialVars, validateVars, totalsVars, lifeVars, migrateVars, customerVars >>

Callers == 1..NumCallers

Workers == 1..NumWorkers

\* A service caller with no session open.
NoSession == [op |-> "none"]

\* A missing value (None, or the empty string): falsy in `if not serial`.
None == << >>

(***************************************************************************)
(* core/serial.py                                                          *)
(***************************************************************************)
\* f"Q-{year}-"
YearPrefix(year) == << "Q", "-" >> \o IntToStr(year) \o << "-" >>

\* serial_number LIKE '<prefix>%' as SQLite evaluates it (ASCII case folded).
Like(s, prefix) ==
    /\ Len(s) >= Len(prefix)
    /\ \A i \in 1..Len(prefix) : Upper(s[i]) = Upper(prefix[i])

\* The serial_number column of the table.
StoredSerials(table) == { table[id].serial_number : id \in DOMAIN table }

\* Mutant: the query orders ascending, so first() is the lowest serial.
LatestDesc_Ascending(strs) == CHOOSE s \in strs : \A t \in strs : t = s \/ StrLess(s, t)

\* .order_by(serial_number.desc()).first() over a non-empty set of strings.
LatestDesc(strs) == CHOOSE s \in strs : \A t \in strs : t = s \/ StrLess(t, s)

\* The number generate_quotation_serial puts in the new serial.
NextNumber(year, table) ==
    LET matching == { s \in StoredSerials(table) : Like(s, YearPrefix(year)) }
    IN  IF matching = {} THEN 1
        ELSE LET latest_serial == LatestDesc(matching)
                 serial_parts == Split(latest_serial)
             IN  IF Len(serial_parts) = 3
                 THEN LET last_number == PyInt(serial_parts[3])
                      IN  IF last_number.ok THEN last_number.val + 1 ELSE 1
                 ELSE 1

generate_quotation_serial(year, table) ==
    << "Q", "-" >> \o IntToStr(year) \o << "-" >> \o Format06d(NextNumber(year, table))

\* The warnings generate_quotation_serial emits for a call: the function has
\* no logging or reporting statement on any path.
GenerateWarnings(year, table) == 0

validate_serial_format(s) ==
    IF s = << >> THEN FALSE
    ELSE LET parts == Split(s)
         IN  IF Len(parts) # 3 THEN FALSE
             ELSE IF parts[1] # << "Q" >> THEN FALSE
             ELSE LET year == PyInt(parts[2])
                      number == PyInt(parts[3])
                  IN  IF ~year.ok \/ year.val < 2000 \/ year.val > 9999 THEN FALSE
                      ELSE IF ~number.ok \/ number.val < 1 \/ number.val > 999999
                      THEN FALSE
                      ELSE IF parts[3] # Format06d(number.val) THEN FALSE
                      ELSE TRUE

(***************************************************************************)
(* The quotations table.                                                   *)
(***************************************************************************)
\* A row as create_quotation and migrate_quotations insert it.
NewQuotation(s, customer_id) ==
    [serial_number |-> s,
     customer_id |-> customer_id,
     status |-> "draft",
     header_discount_type |-> "fixed",
     header_discount_value |-> Dec(0, 0),
     tax_rate |-> Dec(15, 2),
     subtotal_ex_vat |-> Dec(0, 0),
     discount_header |-> Dec(0, 0),
     discounted_ex_vat |-> Dec(0, 0),
     vat_amount |-> Dec(0, 0),
     grand_total |-> Dec(0, 0)]

\* The rowid SQLite gives an inserted row: one more than the largest in use.
NextId(table) ==
    IF DOMAIN table = {} THEN 1
    ELSE (CHOOSE i \in DOMAIN table : \A j \in DOMAIN table : j <= i) + 1

\* Mutant: the column is declared without unique=True.
UniqueViolation_NotDeclared(table, s) == FALSE

\* serial_number is declared unique=True: an insert of a stored serial is
\* rejected with an IntegrityError.
UniqueViolation(table, s) == s \in StoredSerials(table)

Insert(table, row) ==
    [id \in DOMAIN table \cup { NextId(table) } |->
        IF id \in DOMAIN table THEN table[id] ELSE row]

(***************************************************************************)
(* QuotationService.create_quotation, one step per database round trip.    *)
(***************************************************************************)
\* serial = generate_quotation_serial(): reads the committed table.
Generate(p) ==
    /\ pc[p] = "idle"
    /\ calls < MaxCalls
    /\ calls' = calls + 1
    /\ serial' = [serial EXCEPT ![p] = generate_quotation_serial(now_year, quotations)]
    /\ warnings' = warnings + GenerateWarnings(now_year, quotations)
    /\ pc' = [pc EXCEPT ![p] = "commit"]
    /\ UNCHANGED << quotations, now_year, migrated, issued, deletes >>
    /\ UNCHANGED << validateVars, totalsVars, lifeVars, migrateVars, customerVars >>

\* session.add(quotation); session.commit(): the insert succeeds, or the
\* IntegrityError leaves create_quotation through its finally clause.
Commit(p) ==
    /\ pc[p] = "commit"
    /\ IF UniqueViolation(quotations, serial[p])
       THEN /\ pc' = [pc EXCEPT ![p] = "failed"]
            /\ UNCHANGED << quotations, issued >>
       ELSE /\ quotations' = Insert(quotations, NewQuotation(serial[p], 1))
            /\ issued' = issued \cup { serial[p] }
            /\ pc' = [pc EXCEPT ![p] = "done"]
    /\ UNCHANGED << now_year, serial, calls, migrated, deletes, warnings >>
    /\ UNCHANGED << validateVars, totalsVars, lifeVars, migrateVars, customerVars >>

\* The caller has its result (the quotation, or the exception) and may call again.
Return(p) ==
    /\ pc[p] \in { "done", "failed" }
    /\ pc' = [pc EXCEPT ![p] = "idle"]
    /\ serial' = [serial EXCEPT ![p] = None]
    /\ UNCHANGED << quotations, now_year, calls, migrated, issued, deletes, warnings >>
    /\ UNCHANGED << validateVars, totalsVars, lifeVars, migrateVars, customerVars >>

(***************************************************************************)
(* core/migration.py: migrate_quotations                                   *)
(***************************************************************************)
Str(year, digits) == << "Q", "-" >> \o IntToStr(year) \o << "-" >> \o digits

\* Legacy rows: the serial_number they carry (None when absent) and the year
\* of created_at.
LegacyRows ==
    { [serial_number |-> None, year |-> FirstYear, customer_id |-> 1],
      [serial_number |-> None, year |-> FirstYear - 1, customer_id |-> 1],
      [serial_number |-> Str(FirstYear, Format06d(1)), year |-> FirstYear,
       customer_id |-> 1],
      [serial_number |-> Str(FirstYear, Format06d(7)), year |-> FirstYear,
       customer_id |-> 2],
      [serial_number |-> Str(FirstYear, Format06d(999999)), year |-> FirstYear,
       customer_id |-> 1],
      [serial_number |-> Str(FirstYear, << "0", "0", "0", "0", "0", "a" >>),
       year |-> FirstYear, customer_id |-> 1] }

LegacyBatches == UNION { [1..n -> LegacyRows] : n \in 1..MaxLegacy }

\* The serial the loop gives a legacy row: generate_quotation_serial runs in
\* its own session and sees only committed rows, not the ones added so far.
MigratedSerial(data, table) ==
    IF data.serial_number = None
    THEN generate_quotation_serial(data.year, table)
    ELSE data.serial_number

RECURSIVE InsertAll(_, _)
InsertAll(table, rows) ==
    IF rows = << >> THEN table
    ELSE InsertAll(Insert(table, Head(rows)), Tail(rows))

\* The loop, then one commit: every row is inserted, or the unique
\* constraint rejects the batch and run_migration rolls back.  The
\* application runs the migration at start-up, when the new database does
\* not exist yet, so before any create_quotation call.
migrate_quotations(quotations_data) ==
    LET serials == [i \in DOMAIN quotations_data |->
                        MigratedSerial(quotations_data[i], quotations)]
        rows == [i \in DOMAIN quotations_data |->
                    NewQuotation(serials[i], quotations_data[i].customer_id)]
        clash == \/ \E i \in DOMAIN serials : UniqueViolation(quotations, serials[i])
                 \/ \E i, j \in DOMAIN serials : i # j /\ serials[i] = serials[j]
    IN  /\ ~migrated
        /\ calls = 0
        /\ migrated' = TRUE
        /\ added' = [i \in DOMAIN quotations_data |->
                        [data |-> quotations_data[i], serial_number |-> serials[i]]]
        /\ IF clash
           THEN UNCHANGED << quotations, issued >>
           ELSE /\ quotations' = InsertAll(quotations, rows)
                /\ issued' = issued \cup { serials[i] : i \in DOMAIN serials }
        /\ UNCHANGED << now_year, pc, serial, calls, deletes, warnings >>
        /\ UNCHANGED << validateVars, totalsVars, lifeVars, customerVars >>

(***************************************************************************)
(* The environment.                                                        *)
(***************************************************************************)
\* A stored quotation is deleted from the table.
DeleteQuotation(id) ==
    /\ id \in DOMAIN quotations
    /\ deletes < MaxDeletes
    /\ deletes' = deletes + 1
    /\ quotations' = [i \in DOMAIN quotations \ { id } |-> quotations[i]]
    /\ UNCHANGED << now_year, pc, serial, calls, migrated, issued, warnings >>
    /\ UNCHANGED << validateVars, totalsVars, lifeVars, migrateVars, customerVars >>

\* The calendar year rolls over.
NewYear ==
    /\ now_year < FirstYear + YearSpan
    /\ now_year' = now_year + 1
    /\ UNCHANGED << quotations, pc, serial, calls, migrated, issued, deletes, warnings >>
    /\ UNCHANGED << validateVars, totalsVars, lifeVars, migrateVars, customerVars >>

(***************************************************************************)
(* Concurrent quotation creation.                                          *)
(***************************************************************************)
\* The parts of the state an operation under study does not use, at rest.
SerialIdle ==
    /\ quotations = << >>
    /\ now_year = FirstYear
    /\ pc = [p \in Callers |-> "idle"]
    /\ serial = [p \in Callers |-> None]
    /\ calls = 0
    /\ migrated = FALSE
    /\ issued = {}
    /\ deletes = 0
    /\ warnings = 0

ValidateIdle ==
    /\ candidate = None
    /\ verdict = "none"

\* calc_line_totals not called: no arguments drawn.
NoArguments == [unit_type |-> "none"]

TotalsIdle ==
    /\ items_data = << >>
    /\ header_discount = [type |-> "fixed", value |-> Dec(0, 0)]
    /\ tax_rate = Dec(15, 2)
    /\ totals = [error |-> "not called"]
    /\ line_args = NoArguments
    /\ line_result = [error |-> "not called"]
    /\ repeats = 0

LifeIdle ==
    /\ quote_items = << >>
    /\ wpc = [w \in Workers |-> "idle"]
    /\ wloc = [w \in Workers |-> NoSession]
    /\ ops = 0

MigrateIdle == added = << >>

CustomersIdle ==
    /\ customers = {}
    /\ cpc = [w \in Workers |-> "idle"]
    /\ cid = [w \in Workers |-> 0]
    /\ cresult = [w \in Workers |-> "not called"]

\* A fresh database and no call in progress.
Init ==
    /\ SerialIdle
    /\ ValidateIdle
    /\ TotalsIdle
    /\ LifeIdle
    /\ MigrateIdle
    /\ CustomersIdle

Next ==
    \/ \E p \in Callers : Generate(p)
    \/ \E p \in Callers : Commit(p)
    \/ \E p \in Callers : Return(p)
    \/ \E id \in DOMAIN quotations : DeleteQuotation(id)
    \/ NewYear

Spec == Init /\ [][Next]_vars

(***************************************************************************)
(* generate_quotation_serial against stored tables.                        *)
(***************************************************************************)
\* Serials a table can hold: issued by create_quotation (up to and past
\* 999999) or copied verbatim from legacy data by migrate_quotations.
StoredPool ==
    { Str(FirstYear, Format06d(1)),
      Str(FirstYear, Format06d(7)),
      Str(FirstYear, Format06d(999999)),
      Str(FirstYear, Format06d(1000000)),
      Str(FirstYear, << "0", "0", "0", "0", "0", "a" >>),
      << "q", "-" >> \o IntToStr(FirstYear) \o << "-" >> \o Format06d(9),
      Str(FirstYear - 1, Format06d(3)) }

RECURSIVE TableOf(_)
TableOf(S) ==
    IF S = {} THEN << >>
    ELSE LET s == CHOOSE x \in S : \A y \in S : y = x \/ StrLess(y, x)
         IN  Insert(TableOf(S \ { s }), NewQuotation(s, 1))

InitStored ==
    /\ \E S \in SUBSET StoredPool :
          /\ Cardinality(S) <= MaxStored
          /\ quotations = TableOf(S)
          /\ issued = S
    /\ now_year \in { FirstYear - 1, FirstYear }
    /\ pc = [p \in Callers |-> "idle"]
    /\ serial = [p \in Callers |-> None]
    /\ calls = 0
    /\ migrated = FALSE
    /\ deletes = 0
    /\ warnings = 0
    /\ ValidateIdle
    /\ TotalsIdle
    /\ LifeIdle
    /\ MigrateIdle
    /\ CustomersIdle

NextGenerate == \E p \in Callers : Generate(p)

SpecGenerate == InitStored /\ [][NextGenerate]_vars

(***************************************************************************)
(* validate_serial_format over candidate strings.                          *)
(***************************************************************************)
PrefixParts == { << "Q" >>, << "q" >>, << >> }

YearParts ==
    { IntToStr(2025), IntToStr(25), IntToStr(1999), IntToStr(2000),
      IntToStr(9999), IntToStr(10000), ZeroFill(IntToStr(2025), 5),
      << "+" >> \o IntToStr(2025), << "2", "0", "a", "5" >>, << >> }

NumberParts ==
    { Format06d(1), IntToStr(1), Format06d(999999), Format06d(0),
      Format06d(1000000), ZeroFill(IntToStr(1), 7),
      << "0", "0", "0", "0", "0", "a" >>, << "+" >> \o ZeroFill(IntToStr(1), 5),
      << >> }

\* Strings of two, three and four hyphen-separated parts.
Candidates ==
    { a \o << "-" >> \o b \o << "-" >> \o c :
        a \in PrefixParts, b \in YearParts, c \in NumberParts }
    \cup { a \o << "-" >> \o b : a \in PrefixParts, b \in YearParts }
    \cup { << "Q", "-" >> \o b \o << "-" >> \o c \o << "-" >> \o c :
            b \in YearParts, c \in { Format06d(1), IntToStr(1) } }
    \cup { None }

InitValidate ==
    /\ candidate \in Candidates
    /\ verdict = "none"
    /\ SerialIdle
    /\ TotalsIdle
    /\ LifeIdle
    /\ MigrateIdle
    /\ CustomersIdle

Validate ==
    /\ verdict = "none"
    /\ verdict' = IF validate_serial_format(candidate) THEN "accepted" ELSE "rejected"
    /\ UNCHANGED << candidate, serialVars, totalsVars, lifeVars, migrateVars, customerVars >>

NextValidate == Validate

SpecValidate == InitValidate /\ [][NextValidate]_vars

(***************************************************************************)
(* calc_quotation_totals over drawn arguments.                             *)
(***************************************************************************)
\* Line amounts as stored (two decimals): 1750.00, 320.00, 19.99, 0.10 and 0.00.
LineAmounts == { Dec(1750, 0), Dec(320, 0), Dec(1999, 2), Dec(10, 2), Dec(0, 0) }

LineDicts ==
    { [line_total_ex_vat |-> a, discount_amount |-> d] :
        a \in LineAmounts, d \in { Dec(0, 0), Dec(50, 0) } }

LineLists == UNION { [1..n -> LineDicts] : n \in 0..MaxLines }

HeaderDiscounts ==
    { [type |-> ty, value |-> v] :
        ty \in { "percent", "fixed" },
        v \in { Dec(0, 0), Dec(5, 0), Dec(10, 0), Dec(150, 0), Dec(3000, 0), Dec(0 - 10, 0) } }

TaxRates == { Dec(15, 2), Dec(5, 2), Dec(0, 0), Dec(0 - 15, 2) }

InitTotals ==
    /\ items_data \in LineLists
    /\ header_discount \in HeaderDiscounts
    /\ tax_rate \in TaxRates
    /\ totals = [error |-> "not called"]
    /\ line_args = NoArguments
    /\ line_result = [error |-> "not called"]
    /\ repeats = 0
    /\ SerialIdle
    /\ ValidateIdle
    /\ LifeIdle
    /\ MigrateIdle
    /\ CustomersIdle

CallTotals ==
    /\ totals = [error |-> "not called"]
    /\ totals' = calc_quotation_totals(items_data, header_discount.type,
                                       header_discount.value, tax_rate)
    /\ UNCHANGED << items_data, header_discount, tax_rate, line_args, line_result, repeats >>
    /\ UNCHANGED << serialVars, validateVars, lifeVars, migrateVars, customerVars >>

NextTotals == CallTotals

SpecTotals == InitTotals /\ [][NextTotals]_vars

(***************************************************************************)
(* calc_line_totals over drawn arguments.                                  *)
(***************************************************************************)
Widths == { NoneValue, Dec(2, 0), Dec(15, 1), Dec(0 - 2, 0) }

Heights == { NoneValue, Dec(3, 0), Dec(333, 3) }

Quantities == { IntObj(0), IntObj(2), IntObj(3), IntObj(0 - 2) }

\* The members of UnitType, and a value that is none of them.
UnitTypes == { "area", "width", "length", "pcs", "roll" }

BasePrices == { Dec(150, 0), Dec(0, 0) }

VariationPrices == { NoneValue, Dec(0, 0), Dec(80, 0) }

\* The members of DiscountType, and a value that is none of them.
DiscountTypes == { "percent", "fixed", "other" }

DiscountValues == { Dec(0, 0), Dec(50, 0), Dec(150, 0), Dec(3000, 0), Dec(0 - 10, 0) }

LineTaxRates == { Dec(15, 2), Dec(0, 0) }

LineArguments ==
    [width : Widths, height : Heights, quantity : Quantities, unit_type : UnitTypes,
     base_unit_price : BasePrices, variation_price : VariationPrices,
     discount_type : DiscountTypes, discount_value : DiscountValues,
     tax_rate : LineTaxRates]

\* Mutant: the VAT of a call is added to the VAT an earlier call left behind.
LineOutcome_Accumulating(d) ==
    IF d.vat_amount.t # "Decimal" THEN [error |-> "AttributeError"]
    ELSE IF line_result.error = "none"
    THEN [error |-> "none",
          value |-> [d EXCEPT !.vat_amount = Add(@, line_result.value.vat_amount)]]
    ELSE [error |-> "none", value |-> d]

\* What a call of calc_line_totals comes to: the dictionary, or the
\* exception of a quantize call on a value that has no such method.
LineOutcome(d) ==
    IF \/ d.area.t # "Decimal" \/ d.total_area.t # "Decimal"
       \/ d.line_total_ex_vat.t # "Decimal" \/ d.vat_amount.t # "Decimal"
       \/ d.line_total_inc_vat.t # "Decimal"
    THEN [error |-> "AttributeError"]
    ELSE [error |-> "none", value |-> d]

InitLine ==
    /\ line_args \in LineArguments
    /\ line_result = [error |-> "not called"]
    /\ repeats = 0
    /\ items_data = << >>
    /\ header_discount = [type |-> "fixed", value |-> Dec(0, 0)]
    /\ tax_rate = Dec(15, 2)
    /\ totals = [error |-> "not called"]
    /\ SerialIdle
    /\ ValidateIdle
    /\ LifeIdle
    /\ MigrateIdle
    /\ CustomersIdle

CallLine ==
    /\ line_result = [error |-> "not called"]
    /\ line_result' = LineOutcome(
                   calc_line_totals(line_args.width, line_args.height,
                                    line_args.quantity, line_args.unit_type,
                                    line_args.base_unit_price, line_args.variation_price,
                                    line_args.discount_type, line_args.discount_value,
                                    line_args.tax_rate))
    /\ UNCHANGED << items_data, header_discount, tax_rate, totals, line_args, repeats >>
    /\ UNCHANGED << serialVars, validateVars, lifeVars, migrateVars, customerVars >>

NextLine == CallLine

SpecLine == InitLine /\ [][NextLine]_vars

(***************************************************************************)
(* The calculations called again with the arguments of the first call.     *)
(* calculations.py has no module-level variable and no attribute that      *)
(* outlives a call: a call reads its arguments only.                       *)
(***************************************************************************)
RepeatLine ==
    /\ line_result # [error |-> "not called"]
    /\ repeats < MaxRepeats
    /\ repeats' = repeats + 1
    /\ line_result' = LineOutcome(
                          calc_line_totals(line_args.width, line_args.height,
                                           line_args.quantity, line_args.unit_type,
                                           line_args.base_unit_price,
                                           line_args.variation_price,
                                           line_args.discount_type,
                                           line_args.discount_value, line_args.tax_rate))
    /\ UNCHANGED << items_data, header_discount, tax_rate, totals, line_args >>
    /\ UNCHANGED << serialVars, validateVars, lifeVars, migrateVars, customerVars >>

RepeatTotals ==
    /\ totals # [error |-> "not called"]
    /\ repeats < MaxRepeats
    /\ repeats' = repeats + 1
    /\ totals' = calc_quotation_totals(items_data, header_discount.type,
                                       header_discount.value, tax_rate)
    /\ UNCHANGED << items_data, header_discount, tax_rate, line_args, line_result >>
    /\ UNCHANGED << serialVars, validateVars, lifeVars, migrateVars, customerVars >>

InitRepeat == InitLine \/ InitTotals

\* The calculation whose arguments were drawn is the one called.
NextRepeat ==
    \/ line_args # NoArguments /\ CallLine
    \/ line_args # NoArguments /\ RepeatLine
    \/ line_args = NoArguments /\ CallTotals
    \/ line_args = NoArguments /\ RepeatTotals

SpecRepeat == InitRepeat /\ [][NextRepeat]_vars

(***************************************************************************)
(* The life of a quotation: QuotationService.create_quotation,             *)
(* add_quote_item, update_quotation_totals and update_quotation_status.    *)
(* Every caller works in its own session; a session keeps the rows it has  *)
(* loaded (expire_on_commit=False) and a commit writes the attributes      *)
(* whose value differs from the loaded one.                                *)
(***************************************************************************)
\* The products table: id -> row.
Products ==
    << [unit_type |-> "area", base_unit_price |-> Dec(150, 0)],
       [unit_type |-> "pcs", base_unit_price |-> Dec(160, 0)] >>

\* The product_variations table: id -> row.
Variations == << [product_id |-> 1, unit_price_override |-> Dec(80, 0)] >>

\* Arguments of add_quote_item besides the quotation: ids are 0 when absent.
ItemRequests ==
    { [product_id |-> 1, width |-> Dec(2, 0), height |-> Dec(3, 0),
       quantity |-> IntObj(2), product_variation_id |-> 0,
       unit_price_override |-> NoneValue,
       discount_type |-> "fixed", discount_value |-> Dec(50, 0)],
      [product_id |-> 2, width |-> NoneValue, height |-> NoneValue,
       quantity |-> IntObj(2), product_variation_id |-> 0,
       unit_price_override |-> NoneValue,
       discount_type |-> "fixed", discount_value |-> Dec(0, 0)],
      [product_id |-> 3, width |-> NoneValue, height |-> NoneValue,
       quantity |-> IntObj(1), product_variation_id |-> 0,
       unit_price_override |-> NoneValue,
       discount_type |-> "fixed", discount_value |-> Dec(0, 0)],
      [product_id |-> 2, width |-> NoneValue, height |-> NoneValue,
       quantity |-> IntObj(2), product_variation_id |-> 0,
       unit_price_override |-> Dec(120, 0),
       discount_type |-> "fixed", discount_value |-> Dec(0, 0)],
      [product_id |-> 1, width |-> Dec(2, 0), height |-> Dec(3, 0),
       quantity |-> IntObj(1), product_variation_id |-> 1,
       unit_price_override |-> NoneValue,
       discount_type |-> "percent", discount_value |-> Dec(10, 0)] }

Statuses == { "draft", "sent", "accepted", "lost" }

\* A caller between two operations.
AtRest(w) == wpc[w] \in { "idle", "returned", "raised" }

\* The whole of create_quotation, run without another writer in between.
create_quotation(customer_id) ==
    LET s == generate_quotation_serial(now_year, quotations)
    IN  /\ calls < MaxQuotes
        /\ calls' = calls + 1
        /\ warnings' = warnings + GenerateWarnings(now_year, quotations)
        /\ IF UniqueViolation(quotations, s)
           THEN UNCHANGED << quotations, issued >>
           ELSE /\ quotations' = Insert(quotations, NewQuotation(s, customer_id))
                /\ issued' = issued \cup { s }
        /\ UNCHANGED << now_year, pc, serial, migrated, deletes >>
        /\ UNCHANGED << validateVars, totalsVars, lifeVars, migrateVars, customerVars >>

\* The variation add_quote_item looks up (None when no id is given or no
\* row has it).
VariationOf(request) ==
    IF request.product_variation_id \in DOMAIN Variations
    THEN Variations[request.product_variation_id]
    ELSE NoneValue

\* The row add_quote_item inserts.
NewQuoteItem(quotation_id, quotation, request) ==
    LET product == Products[request.product_id]
        variation == VariationOf(request)
        line == calc_line_totals(
                    Or(request.width, Dec(0, 0)), Or(request.height, Dec(0, 0)),
                    request.quantity, product.unit_type, product.base_unit_price,
                    IF variation # NoneValue THEN variation.unit_price_override
                    ELSE NoneValue,
                    request.discount_type, request.discount_value,
                    quotation.tax_rate)
    IN  [quotation_id |-> quotation_id,
         product_id |-> request.product_id,
         product_variation_id |-> request.product_variation_id,
         width |-> request.width,
         height |-> request.height,
         area |-> line.area,
         quantity |-> request.quantity,
         total_area |-> line.total_area,
         unit_price |-> line.unit_price,
         discount_type |-> request.discount_type,
         discount_value |-> request.discount_value,
         line_total_ex_vat |-> line.line_total_ex_vat,
         vat_amount |-> line.vat_amount,
         line_total_inc_vat |-> line.line_total_inc_vat]

\* add_quote_item up to the commit of the new item; it returns None when
\* the quotation or the product does not exist.
add_quote_item(w, quotation_id, request) ==
    /\ AtRest(w)
    /\ ops < MaxOps
    /\ ops' = ops + 1
    /\ IF quotation_id \notin DOMAIN quotations
          \/ request.product_id \notin DOMAIN Products
       THEN /\ wpc' = [wpc EXCEPT ![w] = "returned"]
            /\ wloc' = [wloc EXCEPT ![w] = NoSession]
            /\ UNCHANGED quote_items
       ELSE /\ quote_items' =
                  Append(quote_items,
                         NewQuoteItem(quotation_id, quotations[quotation_id], request))
            /\ wloc' = [wloc EXCEPT ![w] =
                           [op |-> "add_quote_item",
                            request |-> request,
                            quotation_id |-> quotation_id,
                            quotation |-> quotations[quotation_id],
                            items |-> << >>]]
            /\ wpc' = [wpc EXCEPT ![w] = "recalculate"]
    /\ UNCHANGED << serialVars, validateVars, totalsVars, migrateVars, customerVars >>

\* session.query(QuoteItem).filter(QuoteItem.quotation_id == quotation_id).all()
RECURSIVE ItemsOf(_, _)
ItemsOf(table, quotation_id) ==
    IF table = << >> THEN << >>
    ELSE LET rest == ItemsOf(SubSeq(table, 1, Len(table) - 1), quotation_id)
         IN  IF table[Len(table)].quotation_id = quotation_id
             THEN Append(rest, table[Len(table)])
             ELSE rest

\* _recalculate_quotation_totals inside add_quote_item: the queries.  The
\* session already holds the quotation and keeps the attributes it loaded.
RecalculateRead(w) ==
    /\ wpc[w] = "recalculate"
    /\ IF wloc[w].quotation_id \notin DOMAIN quotations
       THEN /\ wpc' = [wpc EXCEPT ![w] = "returned"]
            /\ wloc' = [wloc EXCEPT ![w] = NoSession]
       ELSE /\ wloc' = [wloc EXCEPT ![w].items =
                           ItemsOf(quote_items, wloc[w].quotation_id)]
            /\ wpc' = [wpc EXCEPT ![w] = "commit_totals"]
    /\ UNCHANGED << quote_items, ops >>
    /\ UNCHANGED << serialVars, validateVars, totalsVars, migrateVars, customerVars >>

\* update_quotation_totals: a new session, and the queries of
\* _recalculate_quotation_totals.
update_quotation_totals(w, quotation_id) ==
    /\ AtRest(w)
    /\ ops < MaxOps
    /\ ops' = ops + 1
    /\ IF quotation_id \notin DOMAIN quotations
       THEN /\ wpc' = [wpc EXCEPT ![w] = "returned"]
            /\ wloc' = [wloc EXCEPT ![w] = NoSession]
       ELSE /\ wloc' = [wloc EXCEPT ![w] =
                           [op |-> "update_quotation_totals",
                            quotation_id |-> quotation_id,
                            quotation |-> quotations[quotation_id],
                            items |-> ItemsOf(quote_items, quotation_id)]]
            /\ wpc' = [wpc EXCEPT ![w] = "commit_totals"]
    /\ UNCHANGED quote_items
    /\ UNCHANGED << serialVars, validateVars, totalsVars, migrateVars, customerVars >>

\* items_data as _recalculate_quotation_totals prepares it.
ItemsData(items) ==
    [i \in DOMAIN items |->
        [line_total_ex_vat |-> items[i].line_total_ex_vat,
         discount_amount |-> Dec(0, 0)]]

\* An attribute after the commit: written when the value assigned differs
\* from the one the session loaded.
Flushed(stored, loaded, assigned) == IF assigned = loaded THEN stored ELSE assigned

\* Mutant: the totals are written into a row built anew, serial included.
WriteTotals_NewRow(row, loaded, result) ==
    [NewQuotation(None, 0) EXCEPT
        !.subtotal_ex_vat = result.items_subtotal_ex_vat,
        !.discount_header = result.discount_header,
        !.discounted_ex_vat = result.discounted_ex_vat,
        !.vat_amount = result.vat_amount,
        !.grand_total = result.grand_total]

\* The stored row after _recalculate_quotation_totals assigns the totals and
\* commits.
WriteTotals(row, loaded, result) ==
    [row EXCEPT
        !.subtotal_ex_vat =
            Flushed(@, loaded.subtotal_ex_vat, result.items_subtotal_ex_vat),
        !.discount_header = Flushed(@, loaded.discount_header, result.discount_header),
        !.discounted_ex_vat =
            Flushed(@, loaded.discounted_ex_vat, result.discounted_ex_vat),
        !.vat_amount = Flushed(@, loaded.vat_amount, result.vat_amount),
        !.grand_total = Flushed(@, loaded.grand_total, result.grand_total)]

\* _recalculate_quotation_totals: the calculation, the assignments and the
\* commit.  An exception of the calculation, or a row that is gone, leaves
\* the operation with nothing written.
RecalculateWrite(w) ==
    LET loaded == wloc[w].quotation
        result == calc_quotation_totals(ItemsData(wloc[w].items),
                                        loaded.header_discount_type,
                                        loaded.header_discount_value,
                                        loaded.tax_rate)
        id == wloc[w].quotation_id
    IN  /\ wpc[w] = "commit_totals"
        /\ IF result.error # "none" \/ id \notin DOMAIN quotations
           THEN /\ wpc' = [wpc EXCEPT ![w] = "raised"]
                /\ UNCHANGED quotations
           ELSE /\ quotations' =
                      [quotations EXCEPT ![id] = WriteTotals(@, loaded, result)]
                /\ wpc' = [wpc EXCEPT ![w] = "returned"]
        /\ wloc' = [wloc EXCEPT ![w] = NoSession]
        /\ UNCHANGED << now_year, pc, serial, calls, migrated, issued, deletes, warnings >>
        /\ UNCHANGED << quote_items, ops >>
        /\ UNCHANGED << validateVars, totalsVars, migrateVars, customerVars >>

\* update_quotation_status: returns False for an unknown quotation.
update_quotation_status(w, quotation_id, status) ==
    /\ AtRest(w)
    /\ ops < MaxOps
    /\ ops' = ops + 1
    /\ IF quotation_id \notin DOMAIN quotations
       THEN UNCHANGED quotations
       ELSE quotations' = [quotations EXCEPT ![quotation_id].status = status]
    /\ wpc' = [wpc EXCEPT ![w] = "returned"]
    /\ wloc' = [wloc EXCEPT ![w] = NoSession]
    /\ UNCHANGED << now_year, pc, serial, calls, migrated, issued, deletes, warnings >>
    /\ UNCHANGED quote_items
    /\ UNCHANGED << validateVars, totalsVars, migrateVars, customerVars >>

\* The ids a caller may name: those stored, and one that is not.
QuotationIds == DOMAIN quotations \cup { NextId(quotations) }

NextLife ==
    \/ create_quotation(1)
    \/ \E w \in Workers, id \in QuotationIds, request \in ItemRequests :
          add_quote_item(w, id, request)
    \/ \E w \in Workers : RecalculateRead(w)
    \/ \E w \in Workers : RecalculateWrite(w)
    \/ \E w \in Workers, id \in QuotationIds : update_quotation_totals(w, id)
    \/ \E w \in Workers, id \in QuotationIds, status \in Statuses :
          update_quotation_status(w, id, status)

SpecLife == Init /\ [][NextLife]_vars

(***************************************************************************)
(* core/migration.py: the quotations of a legacy database are migrated     *)
(* into the fresh one.                                                     *)
(***************************************************************************)
NextMigrate == \E quotations_data \in LegacyBatches : migrate_quotations(quotations_data)

SpecMigrate == Init /\ [][NextMigrate]_vars

(***************************************************************************)
(* core/services.py: CustomerService, with quotations created for the      *)
(* customers meanwhile.  Each call runs in a session of its own.           *)
(***************************************************************************)
\* Ids a caller may name: those of stored customers and one never stored.
CustomerIds == 1..(MaxCustomers + 1)

\* create_customer: the new row gets the rowid SQLite gives it, one more
\* than the largest in use.
create_customer ==
    LET id == IF customers = {} THEN 1
              ELSE (CHOOSE i \in customers : \A j \in customers : j <= i) + 1
    IN  /\ id <= MaxCustomers
        /\ customers' = customers \cup { id }
        /\ UNCHANGED << cpc, cid, cresult >>
        /\ UNCHANGED << serialVars, validateVars, totalsVars, lifeVars, migrateVars >>

\* Customer.quotations: the stored quotations whose customer_id is the
\* customer's id.
QuotationsOf(table, customer_id) ==
    { id \in DOMAIN table : table[id].customer_id = customer_id }

\* Mutant: the count of the customer's quotations is taken as 0.
quote_count_Skipped(table, customer_id) == 0

\* session.query(Quotation).filter(Quotation.customer_id == customer_id).count()
quote_count(table, customer_id) == Cardinality(QuotationsOf(table, customer_id))

\* delete_customer up to session.delete(customer): it returns False for an
\* id without row and raises ValueError when the count is positive.
delete_customer(w, customer_id) ==
    /\ cpc[w] = "idle"
    /\ cid' = [cid EXCEPT ![w] = customer_id]
    /\ IF customer_id \notin customers
       THEN /\ cresult' = [cresult EXCEPT ![w] = "False"]
            /\ UNCHANGED cpc
       ELSE IF quote_count(quotations, customer_id) > 0
       THEN /\ cresult' = [cresult EXCEPT ![w] = "ValueError"]
            /\ UNCHANGED cpc
       ELSE /\ cresult' = [cresult EXCEPT ![w] = "pending"]
            /\ cpc' = [cpc EXCEPT ![w] = "commit"]
    /\ UNCHANGED customers
    /\ UNCHANGED << serialVars, validateVars, totalsVars, lifeVars, migrateVars >>

\* session.commit() of the deletion.  The flush first detaches the
\* customer's quotations as they are stored now (the relationship has no
\* delete cascade): one stored meanwhile would get customer_id NULL, which
\* the column refuses, and the IntegrityError leaves through the finally
\* clause with nothing written.
DeleteCommit(w) ==
    /\ cpc[w] = "commit"
    /\ cpc' = [cpc EXCEPT ![w] = "idle"]
    /\ IF QuotationsOf(quotations, cid[w]) # {}
       THEN /\ cresult' = [cresult EXCEPT ![w] = "IntegrityError"]
            /\ UNCHANGED customers
       ELSE /\ cresult' = [cresult EXCEPT ![w] = "True"]
            /\ customers' = customers \ { cid[w] }
    /\ UNCHANGED cid
    /\ UNCHANGED << serialVars, validateVars, totalsVars, lifeVars, migrateVars >>

NextCustomers ==
    \/ create_customer
    \/ \E customer_id \in CustomerIds : create_quotation(customer_id)
    \/ \E w \in Workers, customer_id \in CustomerIds : delete_customer(w, customer_id)
    \/ \E w \in Workers : DeleteCommit(w)

SpecCustomers == Init /\ [][NextCustomers]_vars

(***************************************************************************)
(* Properties of serial allocation.                                        *)
(***************************************************************************)
SixDigits(d) == Len(d) = 6 /\ \A i \in 1..6 : IsDigit(d[i])

\* s is exactly Q-<year>-NNNNNN.
WellShaped(s, year) ==
    /\ Len(s) = Len(YearPrefix(year)) + 6
    /\ SubSeq(s, 1, Len(YearPrefix(year))) = YearPrefix(year)
    /\ SixDigits(SubSeq(s, Len(YearPrefix(year)) + 1, Len(s)))

\* What follows "Q-<year>-" in a serial of that year.
SequencePart(s, year) == SubSeq(s, Len(YearPrefix(year)) + 1, Len(s))

\* The serials of a table that belong to the year.
OfYear(table, year) ==
    { s \in StoredSerials(table) :
        /\ Len(s) >= Len(YearPrefix(year))
        /\ SubSeq(s, 1, Len(YearPrefix(year))) = YearPrefix(year) }

\* A sequence part ranks by its number, and as 0 when it is not a number.
Rank(d) == IF d # << >> /\ \A i \in 1..Len(d) : IsDigit(d[i]) THEN DigitsValue(d) ELSE 0

MaxRank(table, year) ==
    LET ranks == { Rank(SequencePart(s, year)) : s \in OfYear(table, year) } \cup { 0 }
    IN  CHOOSE m \in ranks : \A r \in ranks : r <= m

Returned(p) == pc[p] = "commit"

\* C1: in every reachable state, whatever the interleaving of concurrent
\* create_quotation calls, no two stored quotations have the same
\* serial_number.
C1_UniqueSerials ==
    \A i, j \in DOMAIN quotations :
        i # j => quotations[i].serial_number # quotations[j].serial_number

\* Two callers computed the same serial from the same snapshot; one insert
\* was stored and the other rejected.
C1_Witness ==
    \E p, q \in Callers :
        /\ p # q
        /\ pc[p] = "done"
        /\ pc[q] = "failed"
        /\ serial[p] = serial[q]
        /\ serial[p] \in StoredSerials(quotations)

\* C2: a create_quotation call whose insert the uniqueness constraint rejects
\* is retried with a fresh serial, so no call ends without its quotation
\* stored: no caller is ever left with the rejection.
C2_RejectedInsertIsRetried == \A p \in Callers : pc[p] # "failed"

\* C3: within a year, every serial generate_quotation_serial returns has a
\* sequence strictly greater than that of every serial issued earlier for
\* the year, also after quotations (the one with the highest serial
\* included) were deleted.
C3_NeverReissued ==
    [][\A p \in Callers :
          Generate(p) =>
              \A s \in issued :
                  WellShaped(s, now_year) =>
                      Rank(SequencePart(s, now_year))
                          < Rank(SequencePart(serial'[p], now_year))]_vars

\* C4: against issued serials that all have the shape Q-<year>-NNNNNN,
\* generate_quotation_serial returns Q-<year>- and the highest sequence (0
\* when there is none) plus one, zero-padded to six digits; no serials give
\* 000001, and 000001 with 000007 give 000008.
C4_NextAfterMaximum ==
    \A p \in Callers :
        (Returned(p) /\ \A s \in StoredSerials(quotations) : WellShaped(s, now_year))
        => /\ serial[p] = YearPrefix(now_year)
                            \o ZeroFill(IntToStr(MaxRank(quotations, now_year) + 1), 6)
           /\ quotations = << >>
                => serial[p] = Str(now_year, << "0", "0", "0", "0", "0", "1" >>)
           /\ StoredSerials(quotations)
                = { Str(now_year, << "0", "0", "0", "0", "0", "1" >>),
                    Str(now_year, << "0", "0", "0", "0", "0", "7" >>) }
                => serial[p] = Str(now_year, << "0", "0", "0", "0", "0", "8" >>)

\* A serial was generated against 000001 and 000007 of the year.
C4_Witness ==
    \E p \in Callers :
        /\ Returned(p)
        /\ StoredSerials(quotations)
             = { Str(now_year, << "0", "0", "0", "0", "0", "1" >>),
                 Str(now_year, << "0", "0", "0", "0", "0", "7" >>) }
        /\ serial[p] = Str(now_year, << "0", "0", "0", "0", "0", "8" >>)

\* The year's serials are well-shaped except for entries whose sequence part
\* is no number, and there is such an entry.
HasMalformedEntry ==
    /\ \E s \in OfYear(quotations, now_year) :
          ~PyInt(SequencePart(s, now_year)).ok
    /\ \A s \in StoredSerials(quotations) :
          \/ WellShaped(s, now_year)
          \/ /\ s \in OfYear(quotations, now_year)
             /\ ~PyInt(SequencePart(s, now_year)).ok

\* C5: when the year's issued serials hold an entry whose sequence part is
\* no number, that entry counts as sequence 0 and the serial returned is the
\* highest sequence of the year plus one, so never at or below the sequence
\* of a well-formed serial.
C5_MalformedRanksZero ==
    \A p \in Callers :
        (Returned(p) /\ HasMalformedEntry)
        => /\ serial[p] = YearPrefix(now_year)
                            \o ZeroFill(IntToStr(MaxRank(quotations, now_year) + 1), 6)
           /\ \A s \in StoredSerials(quotations) :
                 WellShaped(s, now_year)
                 => Rank(SequencePart(s, now_year))
                      < Rank(SequencePart(serial[p], now_year))

\* C6: whenever generate_quotation_serial meets an issued serial that does
\* not parse, it reports the anomaly besides returning a serial.
C6_MalformedIsReported ==
    (HasMalformedEntry /\ \E p \in Callers : Returned(p)) => warnings > 0

\* C7: for a year in 2000..9999 and stored serials that are all valid, the
\* serial generate_quotation_serial returns is valid too
\* (validate_serial_format accepts it), also when the highest stored
\* sequence is 999999.
C7_GeneratedIsValid ==
    \A p \in Callers :
        (/\ Returned(p)
         /\ now_year \in 2000..9999
         /\ \A s \in StoredSerials(quotations) : validate_serial_format(s))
        => validate_serial_format(serial[p])

\* s is "Q-", four digits of a year in 2000..9999, "-", six digits of a
\* number in 1..999999.
CanonicalSerial(s) ==
    /\ Len(s) = 13
    /\ s[1] = "Q"
    /\ s[2] = "-"
    /\ \A i \in 3..6 : IsDigit(s[i])
    /\ DigitsValue(SubSeq(s, 3, 6)) \in 2000..9999
    /\ s[7] = "-"
    /\ \A i \in 8..13 : IsDigit(s[i])
    /\ DigitsValue(SubSeq(s, 8, 13)) \in 1..999999

\* C8: validate_serial_format accepts exactly the strings Q-YYYY-NNNNNN with
\* a four-digit year in 2000..9999 and a six-digit zero-padded number in
\* 1..999999, and rejects every other string.
C8_AcceptsExactlyCanonical ==
    verdict # "none" => (verdict = "accepted" <=> CanonicalSerial(candidate))

(***************************************************************************)
(* Properties of the calculations.                                         *)
(***************************************************************************)
TotalsReturned == totals.error # "not called"

\* C9: a quotation's serial_number is set once, when create_quotation inserts
\* the row, and no later operation on the quotation (add_quote_item,
\* update_quotation_totals / _recalculate_quotation_totals,
\* update_quotation_status) changes it: in every step a stored row keeps its
\* serial, and a row appears only in a step of create_quotation.
C9_SerialSetOnce ==
    [][/\ \A id \in DOMAIN quotations :
             /\ id \in DOMAIN quotations'
             /\ quotations'[id].serial_number = quotations[id].serial_number
       /\ DOMAIN quotations' # DOMAIN quotations => calls' = calls + 1]_vars

\* A quotation that has had an item added, its totals recalculated and
\* written, and its status changed.
C9_Witness ==
    \E id \in DOMAIN quotations :
        /\ quotations[id].serial_number = generate_quotation_serial(FirstYear, << >>)
        /\ ItemsOf(quote_items, id) # << >>
        /\ quotations[id].grand_total # Dec(0, 0)
        /\ quotations[id].status = "sent"

\* C10: for an empty line list, a zero header discount and any non-negative
\* tax rate, calc_quotation_totals returns normally and every total it
\* returns is zero.
C10_EmptyListGivesZeros ==
    (TotalsReturned /\ items_data = << >> /\ header_discount.value = Dec(0, 0))
    => /\ totals.error = "none"
       /\ totals.items_subtotal_ex_vat = Dec(0, 0)
       /\ totals.total_item_discounts = Dec(0, 0)
       /\ totals.discounted_ex_vat = Dec(0, 0)
       /\ totals.vat_amount = Dec(0, 0)
       /\ totals.grand_total = Dec(0, 0)

(***************************************************************************)
(* Properties of the line calculation.                                     *)
(***************************************************************************)
LineCalled == line_result.error # "not called"

LineReturned == line_result.error = "none"

Zero == Dec(0, 0)

NonNegative(x) == ~Less(x, Zero)

\* The modes that price by a dimension, and the dimension each needs.
RequiredDimensionsGiven(a) ==
    /\ a.unit_type \in { "area", "width" } => a.width # NoneValue
    /\ a.unit_type \in { "area", "length" } => a.height # NoneValue

\* Arguments the calculation is specified for.
ValidLineInput(a) ==
    /\ a.unit_type \in { "area", "width", "length", "pcs" }
    /\ a.quantity.n >= 0
    /\ NonNegative(a.width)
    /\ NonNegative(a.height)
    /\ RequiredDimensionsGiven(a)
    /\ a.discount_type \in { "percent", "fixed" }
    /\ NonNegative(a.discount_value)
    /\ NonNegative(a.tax_rate)

\* The price calc_line_totals is asked to use.
EffectivePrice(a) ==
    IF a.variation_price # NoneValue THEN a.variation_price ELSE a.base_unit_price

\* C11: calc_line_totals with quantity 0, in any unit-pricing mode, returns
\* total_area, base_qty, line_base, line_total_ex_vat, vat_amount and
\* line_total_inc_vat all 0; with an effective unit price of 0 it returns
\* line_base and all line totals 0.
C11_ZeroQuantityOrPriceGivesZeros ==
    (LineCalled /\ ValidLineInput(line_args))
    => /\ line_args.quantity.n = 0
          => /\ LineReturned
             /\ line_result.value.total_area = Zero
             /\ line_result.value.base_qty = Zero
             /\ line_result.value.line_base = Zero
             /\ line_result.value.line_total_ex_vat = Zero
             /\ line_result.value.vat_amount = Zero
             /\ line_result.value.line_total_inc_vat = Zero
       /\ EffectivePrice(line_args) = Zero
          => /\ LineReturned
             /\ line_result.value.line_base = Zero
             /\ line_result.value.line_total_ex_vat = Zero
             /\ line_result.value.vat_amount = Zero
             /\ line_result.value.line_total_inc_vat = Zero

(***************************************************************************)
(* Properties of the quotation totals.                                     *)
(***************************************************************************)
\* x rounded half up to two decimals, computed from the numerator.
RoundMoney(x) == Dec(HalfUp(x, 2), 2)

\* Arguments the totals are specified for.
ValidTotalsInput ==
    /\ NonNegative(header_discount.value)
    /\ NonNegative(tax_rate)
    /\ \A i \in DOMAIN items_data : NonNegative(items_data[i].line_total_ex_vat)

\* C12: the vat_amount calc_quotation_totals returns equals the returned,
\* money-rounded discounted_ex_vat times the tax rate, rounded half up to
\* two decimals: the tax is computed once, on the rounded subtotal after the
\* header discount.
C12_VatOfReturnedSubtotal ==
    (TotalsReturned /\ totals.error = "none" /\ ValidTotalsInput)
    => totals.vat_amount = RoundMoney(Mul(totals.discounted_ex_vat, tax_rate))

\* x rounded half up to three decimals, computed from the numerator.
RoundArea(x) == Dec(HalfUp(x, 3), 3)

\* C13: in area mode, for non-negative width, height and quantity,
\* calc_line_totals returns total_area equal to the exact product
\* width * height * quantity rounded once, half up, to three decimals.
C13_TotalAreaRoundedOnce ==
    (/\ LineCalled
     /\ ValidLineInput(line_args)
     /\ line_args.unit_type = "area"
     /\ line_args.quantity.n > 0)
    => /\ LineReturned
       /\ line_result.value.total_area =
             RoundArea(Mul(Mul(line_args.width, line_args.height),
                           DecimalOfStr(line_args.quantity)))

\* Arguments of a line that the calculation is to refuse: an unknown
\* unit-pricing mode, a negative quantity, a negative dimension, or a
\* dimension missing that the mode needs.
MalformedLine(a) ==
    \/ a.unit_type \notin { "area", "width", "length", "pcs" }
    \/ a.quantity.n < 0
    \/ Less(a.width, Zero)
    \/ Less(a.height, Zero)
    \/ ~RequiredDimensionsGiven(a)

\* C14: for a malformed line (unknown unit-pricing mode, negative quantity,
\* negative dimension, or a required dimension missing) calc_line_totals
\* signals an error and returns no result.
C14_MalformedLineIsRefused ==
    (LineCalled /\ MalformedLine(line_args)) => ~LineReturned

\* A discount the calculation is to refuse: a negative value, or a mode
\* that is neither percent nor fixed.
MalformedDiscount(a) ==
    \/ Less(a.discount_value, Zero)
    \/ a.discount_type \notin { "percent", "fixed" }

\* C15: a line discount with a negative value, or with a mode that is neither
\* percent nor fixed, makes the calculation of an otherwise well-formed line
\* fail with an error; and the amount after the discount is never larger
\* than the amount before it.
C15_MalformedDiscountIsRefused ==
    (LineCalled /\ ~MalformedLine(line_args))
    => /\ MalformedDiscount(line_args) => ~LineReturned
       /\ (LineReturned /\ NonNegative(line_result.value.line_base))
          => ~Less(line_result.value.line_base,
                   apply_discount(line_result.value.line_base,
                                  line_args.discount_type, line_args.discount_value))

\* C16: calc_quotation_totals refuses a negative tax rate and a negative
\* header discount value: called with either, on a non-empty list, it
\* signals an error and returns no totals.
C16_NegativeRateOrDiscountIsRefused ==
    (/\ TotalsReturned
     /\ items_data # << >>
     /\ Less(tax_rate, Zero) \/ Less(header_discount.value, Zero))
    => totals.error # "none"

\* C17: for a non-negative pre-discount amount, any discount mode and a
\* non-negative discount value (a percent above 100 and a fixed value above
\* the amount included), the amount apply_discount returns is not negative,
\* and neither are the line_total_ex_vat, vat_amount and line_total_inc_vat
\* calc_line_totals returns.
C17_DiscountFloor ==
    (/\ LineReturned
     /\ NonNegative(line_result.value.line_base)
     /\ NonNegative(line_args.discount_value))
    => /\ NonNegative(apply_discount(line_result.value.line_base,
                                     line_args.discount_type, line_args.discount_value))
       /\ NonNegative(line_result.value.line_total_ex_vat)
       /\ NonNegative(line_result.value.vat_amount)
       /\ NonNegative(line_result.value.line_total_inc_vat)

\* A line of a positive amount whose percent discount is above 100 and comes
\* out at zero.
C17_Witness ==
    /\ LineReturned
    /\ ValidLineInput(line_args)
    /\ line_args.quantity.n > 0
    /\ Less(Zero, line_result.value.line_base)
    /\ line_args.discount_type = "percent"
    /\ Less(Dec(100, 0), line_args.discount_value)
    /\ line_result.value.line_total_ex_vat = Zero
    /\ line_result.value.line_total_inc_vat = Zero

\* sum of the line amounts handed to calc_quotation_totals
ItemsSubtotal == Sum([i \in DOMAIN items_data |-> items_data[i].line_total_ex_vat])

\* The header discount as an amount: the fixed value, or the percent of the
\* subtotal.
HeaderDiscountAmount ==
    IF header_discount.type = "percent"
    THEN Mul(ItemsSubtotal, DivHundred(header_discount.value))
    ELSE header_discount.value

\* C18: for a non-empty list of non-negative line amounts and a header
\* discount (fixed value, or percent of the subtotal) that exceeds the items
\* subtotal, calc_quotation_totals returns discounted_ex_vat, vat_amount and
\* grand_total all 0.
C18_HeaderDiscountFloor ==
    (/\ TotalsReturned
     /\ items_data # << >>
     /\ ValidTotalsInput
     /\ Less(ItemsSubtotal, HeaderDiscountAmount))
    => /\ totals.error = "none"
       /\ totals.discounted_ex_vat = Zero
       /\ totals.vat_amount = Zero
       /\ totals.grand_total = Zero

\* A percent discount above 100 on a positive subtotal, with a tax rate above
\* zero, has been calculated.
C18_Witness ==
    /\ TotalsReturned
    /\ Len(items_data) = MaxLines
    /\ Less(Zero, ItemsSubtotal)
    /\ Less(Zero, tax_rate)
    /\ header_discount.type = "percent"
    /\ Less(ItemsSubtotal, HeaderDiscountAmount)
    /\ totals.error = "none"
    /\ totals.items_subtotal_ex_vat = ItemsSubtotal

\* The subtotal after the header discount, before it is rounded.
DiscountedUnrounded == Max(Sub(ItemsSubtotal, HeaderDiscountAmount), Zero)

Permuted(f) == [i \in DOMAIN items_data |-> items_data[f[i]]]

\* C20: for a non-empty list of lines, calc_quotation_totals returns the same
\* value in every output field for every permutation of the list, the header
\* discount and tax rate being the same.
C20_OrderOfLinesIsIrrelevant ==
    (TotalsReturned /\ items_data # << >>)
    => \A f \in Permutations(DOMAIN items_data) :
          calc_quotation_totals(Permuted(f), header_discount.type,
                                header_discount.value, tax_rate) = totals

\* Totals have been returned for a list of lines of different amounts and
\* different item discounts.
C20_Witness ==
    /\ TotalsReturned
    /\ totals.error = "none"
    /\ Len(items_data) >= 2
    /\ items_data[1].line_total_ex_vat # items_data[2].line_total_ex_vat
    /\ items_data[1].discount_amount # items_data[2].discount_amount
    /\ Less(Zero, totals.grand_total)

\* The billable quantity of a line, by unit-pricing mode.
BillableQuantity(a, total_area) ==
    IF a.unit_type = "area" THEN total_area
    ELSE IF a.unit_type = "width" THEN Mul(a.width, DecimalOfStr(a.quantity))
    ELSE IF a.unit_type = "length" THEN Mul(a.height, DecimalOfStr(a.quantity))
    ELSE DecimalOfStr(a.quantity)

\* C21: the base_qty calc_line_totals returns is the returned total_area in
\* area mode, width * quantity in width mode, height * quantity in length
\* mode and quantity in pieces mode, and line_base is base_qty times the
\* effective unit price.
C21_BillableQuantityByMode ==
    (LineCalled /\ ValidLineInput(line_args))
    => /\ LineReturned
       /\ line_result.value.base_qty =
             BillableQuantity(line_args, line_result.value.total_area)
       /\ line_result.value.line_base =
             Mul(line_result.value.base_qty, EffectivePrice(line_args))

\* C22: the unit price calc_line_totals uses is the override whenever one is
\* given (not None), an override of exactly 0 included, which gives a zero
\* line_base and zero line totals; only a missing override falls back to the
\* base unit price.
C22_OverrideOfZeroIsAPrice ==
    (LineCalled /\ ValidLineInput(line_args))
    => /\ LineReturned
       /\ line_args.variation_price # NoneValue
          => line_result.value.unit_price = line_args.variation_price
       /\ line_args.variation_price = NoneValue
          => line_result.value.unit_price = line_args.base_unit_price
       /\ line_args.variation_price = Zero
          => /\ line_result.value.line_base = Zero
             /\ line_result.value.line_total_ex_vat = Zero
             /\ line_result.value.vat_amount = Zero
             /\ line_result.value.line_total_inc_vat = Zero

\* A line of a product with a base price above zero, a quantity above zero
\* and an override of exactly 0 has been calculated.
C22_Witness ==
    /\ LineReturned
    /\ ValidLineInput(line_args)
    /\ line_args.variation_price = Zero
    /\ Less(Zero, line_args.base_unit_price)
    /\ Less(Zero, line_result.value.base_qty)
    /\ line_args.quantity.n > 0
    /\ line_result.value.unit_price = Zero

\* The amount of the line after its discount, before any rounding.
PostDiscount ==
    apply_discount(line_result.value.line_base, line_args.discount_type,
                   line_args.discount_value)

\* The line of the worked example: 2 by 3, quantity 2, priced by area at
\* 150.00, fixed discount 50.00, tax 0.15.
ExampleLine ==
    [width |-> Dec(2, 0), height |-> Dec(3, 0), quantity |-> IntObj(2),
     unit_type |-> "area", base_unit_price |-> Dec(150, 0),
     variation_price |-> NoneValue, discount_type |-> "fixed",
     discount_value |-> Dec(50, 0), tax_rate |-> Dec(15, 2)]

\* C23: for valid input the vat_amount calc_line_totals returns is the
\* unrounded post-discount amount times the tax rate, rounded half up to two
\* decimals, and line_total_inc_vat is the post-discount amount plus that
\* vat_amount, rounded half up to two decimals; the example line gives
\* 1750.00, 262.50 and 2012.50.
C23_LineVatRoundedHalfUp ==
    (LineCalled /\ ValidLineInput(line_args))
    => /\ LineReturned
       /\ line_result.value.line_total_ex_vat = RoundMoney(PostDiscount)
       /\ line_result.value.vat_amount =
             RoundMoney(Mul(PostDiscount, line_args.tax_rate))
       /\ line_result.value.line_total_inc_vat =
             RoundMoney(Add(PostDiscount, line_result.value.vat_amount))
       /\ line_args = ExampleLine
          => /\ line_result.value.line_total_ex_vat = Dec(1750, 0)
             /\ line_result.value.vat_amount = Dec(26250, 2)
             /\ line_result.value.line_total_inc_vat = Dec(201250, 2)

\* A valid line has been calculated whose tax before rounding ends on half a
\* cent, and was rounded up.
C23_Witness ==
    /\ LineReturned
    /\ ValidLineInput(line_args)
    /\ line_args.quantity.n > 0
    /\ Mul(PostDiscount, line_args.tax_rate).e = 3
    /\ Mul(PostDiscount, line_args.tax_rate).n % 10 = 5
    /\ Less(Mul(PostDiscount, line_args.tax_rate), line_result.value.vat_amount)

DiscountAmounts == { items_data[i].discount_amount : i \in DOMAIN items_data }
                      \cup { Zero, Dec(50, 0) }

\* items_data with the discount_amount of line i changed to d.
WithDiscountAmount(i, d) == [items_data EXCEPT ![i].discount_amount = d]

\* C25: in calc_quotation_totals the discount_amount of the lines determines
\* only total_item_discounts, their sum rounded to two decimals: with the
\* discount_amount of any line changed, items_subtotal_ex_vat,
\* discount_header, discounted_ex_vat, vat_amount and grand_total are
\* returned unchanged.
C25_ItemDiscountsAreDisplayOnly ==
    (TotalsReturned /\ totals.error = "none")
    => /\ totals.total_item_discounts =
             RoundMoney(Sum([i \in DOMAIN items_data |-> items_data[i].discount_amount]))
       /\ \A i \in DOMAIN items_data, d \in DiscountAmounts :
             LET other == calc_quotation_totals(WithDiscountAmount(i, d),
                                                header_discount.type,
                                                header_discount.value, tax_rate)
             IN  /\ other.error = "none"
                 /\ other.items_subtotal_ex_vat = totals.items_subtotal_ex_vat
                 /\ other.discount_header = totals.discount_header
                 /\ other.discounted_ex_vat = totals.discounted_ex_vat
                 /\ other.vat_amount = totals.vat_amount
                 /\ other.grand_total = totals.grand_total

\* Totals have been returned for lines that carry item discounts, with a
\* grand total above zero.
C25_Witness ==
    /\ TotalsReturned
    /\ totals.error = "none"
    /\ Less(Zero, totals.total_item_discounts)
    /\ Less(Zero, totals.grand_total)
    /\ \E i \in DOMAIN items_data : items_data[i].discount_amount = Zero

(***************************************************************************)
(* Properties of the quotation services.                                   *)
(***************************************************************************)
\* What calc_quotation_totals gives for the items stored for a quotation.
TotalsOfStoredItems(id) ==
    calc_quotation_totals(ItemsData(ItemsOf(quote_items, id)),
                          quotations[id].header_discount_type,
                          quotations[id].header_discount_value,
                          quotations[id].tax_rate)

\* C26: once the concurrent add_quote_item calls on a quotation have all
\* completed, the stored subtotal_ex_vat, discounted_ex_vat, vat_amount and
\* grand_total of the quotation are those calc_quotation_totals gives for
\* all the items stored for it.
C26_TotalsCoverAllItems ==
    \A id \in DOMAIN quotations :
        ((\A w \in Workers : AtRest(w)) /\ ItemsOf(quote_items, id) # << >>)
        => /\ quotations[id].subtotal_ex_vat =
                 TotalsOfStoredItems(id).items_subtotal_ex_vat
           /\ quotations[id].discounted_ex_vat =
                 TotalsOfStoredItems(id).discounted_ex_vat
           /\ quotations[id].vat_amount = TotalsOfStoredItems(id).vat_amount
           /\ quotations[id].grand_total = TotalsOfStoredItems(id).grand_total


(***************************************************************************)
(* Properties of the migration.                                            *)
(***************************************************************************)
\* C27: every serial migrate_quotations generates for a legacy quotation
\* without one differs from the serials of the quotations added earlier in
\* the same run.
C27_MigratedSerialsDistinct ==
    \A j \in DOMAIN added :
        added[j].data.serial_number = None
        => \A i \in 1..(j - 1) : added[i].serial_number # added[j].serial_number


(***************************************************************************)
(* Properties of the item service.                                         *)
(***************************************************************************)
\* The price the request asks for: the unit_price_override argument when it
\* is given, else the override of the selected variation when it has one,
\* else the base unit price of the product.
RequestedPrice(request) ==
    IF request.unit_price_override # NoneValue THEN request.unit_price_override
    ELSE IF VariationOf(request) # NoneValue
            /\ VariationOf(request).unit_price_override # NoneValue
         THEN VariationOf(request).unit_price_override
         ELSE Products[request.product_id].base_unit_price

\* The line totals of the request at a given unit price.
LineAtPrice(request, quotation, price) ==
    calc_line_totals(Or(request.width, Dec(0, 0)), Or(request.height, Dec(0, 0)),
                     request.quantity, Products[request.product_id].unit_type,
                     price, NoneValue, request.discount_type,
                     request.discount_value, quotation.tax_rate)

\* Caller w's add_quote_item call inserts its item in this step.
AddsItem(w) ==
    /\ AtRest(w)
    /\ wpc'[w] = "recalculate"
    /\ wloc'[w].op = "add_quote_item"

\* C28: the item add_quote_item stores carries, as unit_price and as line
\* totals, the values computed from the unit_price_override argument when it
\* is given, else from the selected variation's override, else from the
\* product's base unit price.
C28_ItemPricedByOverrideFirst ==
    [][\A w \in Workers :
          AddsItem(w)
          => LET item == quote_items'[Len(quote_items')]
                 request == wloc'[w].request
                 line == LineAtPrice(request, wloc'[w].quotation,
                                     RequestedPrice(request))
             IN  /\ item.unit_price = RequestedPrice(request)
                 /\ item.line_total_ex_vat = line.line_total_ex_vat
                 /\ item.vat_amount = line.vat_amount
                 /\ item.line_total_inc_vat = line.line_total_inc_vat]_vars

\* The same statement for the calls that give no unit_price_override.
C28_WithoutOverrideArgument ==
    [][\A w \in Workers :
          (AddsItem(w) /\ wloc'[w].request.unit_price_override = NoneValue)
          => LET item == quote_items'[Len(quote_items')]
                 request == wloc'[w].request
                 line == LineAtPrice(request, wloc'[w].quotation,
                                     RequestedPrice(request))
             IN  /\ item.unit_price = RequestedPrice(request)
                 /\ item.line_total_ex_vat = line.line_total_ex_vat
                 /\ item.vat_amount = line.vat_amount
                 /\ item.line_total_inc_vat = line.line_total_inc_vat]_vars


(***************************************************************************)
(* Properties of the customer service.                                     *)
(***************************************************************************)
\* Caller w's delete_customer call for customer_id runs its queries in this
\* step.
DeleteCalled(w, customer_id) ==
    /\ cpc[w] = "idle"
    /\ << cpc[w], cid[w], cresult[w] >> # << cpc'[w], cid'[w], cresult'[w] >>
    /\ cid'[w] = customer_id

\* C29: a customer leaves the customers table only when no stored quotation
\* references it; a delete_customer call for a customer with at least one
\* quotation raises ValueError and a call for an unknown id returns False,
\* both leaving the stored customers and quotations as they were.
C29_DeleteCustomerOnlyWithoutQuotations ==
    [][/\ \A c \in customers \ customers' : QuotationsOf(quotations, c) = {}
       /\ \A w \in Workers, c \in CustomerIds :
             DeleteCalled(w, c)
             => /\ (c \in customers /\ QuotationsOf(quotations, c) # {})
                   => /\ cresult'[w] = "ValueError"
                      /\ UNCHANGED << customers, quotations >>
                /\ c \notin customers
                   => /\ cresult'[w] = "False"
                      /\ UNCHANGED << customers, quotations >>]_vars

\* One caller was refused for a customer that has a quotation and is still
\* stored, the other deleted a customer without quotations.
C29_Witness ==
    \E w, v \in Workers :
        /\ cresult[w] = "ValueError"
        /\ cid[w] \in customers
        /\ QuotationsOf(quotations, cid[w]) # {}
        /\ cresult[v] = "True"
        /\ cid[v] \notin customers


(***************************************************************************)
(* The serial of a year and the quotations of other years.                 *)
(***************************************************************************)
\* The rows whose serial does not begin with the year's prefix.
RowsOutsideYear(table, year) ==
    { id \in DOMAIN table : table[id].serial_number \notin OfYear(table, year) }

\* The table without some of its rows.
Without(table, ids) == [id \in DOMAIN table \ ids |-> table[id]]

\* C30: the serial generate_quotation_serial returns for a year is the one it
\* returns with any of the rows removed whose serial does not begin with
\* Q-<year>-, and it is Q-<year>-000001 when no stored serial begins with
\* Q-<year>-.
C30_OnlyTheYearsSerialsCount ==
    \A p \in Callers :
        Returned(p)
        => /\ \A ids \in SUBSET RowsOutsideYear(quotations, now_year) :
                 serial[p] = generate_quotation_serial(now_year, Without(quotations, ids))
           /\ OfYear(quotations, now_year) = {}
                => serial[p] = Str(now_year, << "0", "0", "0", "0", "0", "1" >>)

\* The same statement for tables whose serials all begin with Q-.
C30_AmongSerialsWithCapitalQ ==
    \A p \in Callers :
        (/\ Returned(p)
         /\ \A s \in StoredSerials(quotations) : SubSeq(s, 1, 2) = << "Q", "-" >>)
        => /\ \A ids \in SUBSET RowsOutsideYear(quotations, now_year) :
                 serial[p] = generate_quotation_serial(now_year, Without(quotations, ids))
           /\ OfYear(quotations, now_year) = {}
                => serial[p] = Str(now_year, << "0", "0", "0", "0", "0", "1" >>)

====
